---- MODULE Spec2Model ----
(***************************************************************************)
(* TrxForwarder (src/src/forwarder.js) driven by the Node.js event loop.   *)
(* Every action is one run-to-completion segment of JavaScript: from the   *)
(* point a callback or a continuation is entered up to its next await or   *)
(* its return.  The chain is the environment: the watched balance, the     *)
(* moment a pending getBalance samples it, and whether a call succeeds.    *)
(* Amounts are whole units of TRX.                                         *)
(***************************************************************************)
EXTENDS Integers, Sequences, FiniteSets, TLC

\* ---------------------------------------------------------------- bounds
MaxCalls == 1      \* timer-started checkBalance invocations suspended at once
MaxDeposit == 3    \* units deposited to the watched address in total
MaxAttempts == 3   \* largest maxAttempts handed to waitForConfirmation

\* ---------------------------------------------------------------- inputs
\* The configuration object handed to the constructor.  The first two satisfy
\* loadConfig's check minAmount > reserveAmount, the third does not (the
\* constructor itself validates nothing).
Configs ==
  { [minAmount |-> 2, reserveAmount |-> 0, destinationAddress |-> "dest"],
    [minAmount |-> 3, reserveAmount |-> 1, destinationAddress |-> "dest"],
    [minAmount |-> 1, reserveAmount |-> 2, destinationAddress |-> "dest"] }

NoVal == -1        \* a pending getBalance that has not yet sampled the chain
NoTimer == 0       \* checkIntervalId === null
Handle == 1        \* the interval whose handle checkIntervalId holds
Leaked == 2        \* armed intervals whose handle was overwritten

VARIABLES
  config,          \* this.config
  lastBalance,     \* this.lastBalance
  isProcessing,    \* this.isProcessing
  checkIntervalId, \* this.checkIntervalId (NoTimer or a timer id)
  stats,           \* this.stats: transfersCount, totalAmount
  timers,          \* armed setInterval timers (event loop)
  calls,           \* suspended invocations: slot 0 is start() and its first
                   \* checkBalance, the others are timer-started checkBalance
  resyncTimers,    \* armed setTimeout callbacks of the deferred resync
  resyncReads,     \* resync callbacks awaiting getBalance: value -> how many
  chain,           \* balance of the watched address on the ledger
  deposited,       \* units deposited so far
  stopped,         \* stop() has returned and start() was not called since
  okCount,         \* sendTrx calls that resolved with success
  okSum,           \* sum of the amounts of those calls
  unfwd,           \* balance whose submission failed, chain unmoved since
  ev,              \* which segment of the program ran last
  env,             \* process.env as loadConfig finds it
  loaded,          \* what loadConfig did: returned a config, or exit(1)
  wfc              \* a waitForConfirmation call: loop position and lookups

vars == << config, lastBalance, isProcessing, checkIntervalId, stats, timers,
           calls, resyncTimers, resyncReads, chain, deposited, stopped,
           okCount, okSum, unfwd, ev, env, loaded, wfc >>

engine == << lastBalance, isProcessing, checkIntervalId, stats >>
ghosts == << okCount, okSum >>
tools == << env, loaded, wfc >>
forwarder == << config, engine, timers, calls, resyncTimers, resyncReads, chain,
                deposited, stopped, ghosts, unfwd, ev >>

Slots == 0 .. MaxCalls
TimerSlots == 1 .. MaxCalls
ReadVals == NoVal .. MaxDeposit

\* calm: the call began when lastBalance was the ledger's balance, and the ledger
\* has not moved since.
FreeCall == [pc |-> "free", val |-> NoVal, bal |-> 0, amt |-> 0, to |-> "", calm |-> FALSE]

\* ------------------------------------------------------------ constructor
\* Nothing loaded, no confirmation awaited.
NoEnv == "none"
NotLoaded == [status |-> "none"]
WaitIdle == [pc |-> "idle"]

\* forwarder.js:8-21: new TrxForwarder(c, tronService)
Constructed(c) ==
  /\ config = c
  /\ lastBalance = 0
  /\ isProcessing = FALSE
  /\ checkIntervalId = NoTimer
  /\ stats = [transfersCount |-> 0, totalAmount |-> 0]
  /\ timers = {}
  /\ calls = [p \in Slots |-> FreeCall]
  /\ resyncTimers = 0
  /\ resyncReads = [v \in ReadVals |-> 0]
  /\ chain = 0
  /\ deposited = 0
  /\ stopped = FALSE
  /\ okCount = 0
  /\ okSum = 0
  /\ unfwd = NoVal
  /\ ev = "init"

Init ==
  /\ \E c \in Configs : Constructed(c)
  /\ env = NoEnv
  /\ loaded = NotLoaded
  /\ wfc = WaitIdle

\* ------------------------------------------------------------ forwardTRX
\* Variant: the minimum-amount test is dropped.
BelowThreshold_Never(balance) == FALSE

\* forwarder.js:123  balance < this.config.minAmount
BelowThreshold(balance) == balance < config.minAmount

\* Variant: the reserve is not held back.
AmountToSend_Whole(balance) == balance

\* Variant: the threshold is held back instead of the reserve.
AmountToSend_LessThreshold(balance) == balance - config.minAmount

\* forwarder.js:132  balance - this.config.reserveAmount
AmountToSend(balance) == balance - config.reserveAmount

\* forwarder.js:121-139: which way forwardTRX leaves its synchronous prefix.
ForwardPath(balance) ==
  IF BelowThreshold(balance) THEN "fwd_below"
  ELSE IF AmountToSend(balance) <= 0 THEN "fwd_reserve"
  ELSE "fwd_submit"

\* Variant: the flag is cleared in the try block only, not in a finally.
FlagAfterForward_NoFinally(path) == path = "send_fail"

\* forwarder.js:182-185: the finally block, reached on every way out.
FlagAfterForward(path) == FALSE

\* Variant: the total is kept but the count is not.
StatsAfterSuccess_NoCount(amountToSend) ==
  [transfersCount |-> stats.transfersCount,
   totalAmount |-> stats.totalAmount + amountToSend]

\* forwarder.js:157-158
StatsAfterSuccess(amountToSend) ==
  [transfersCount |-> stats.transfersCount + 1,
   totalAmount |-> stats.totalAmount + amountToSend]

\* A checkBalance invocation returns (and with it start(), in slot 0).
Finish(p) == calls' = [calls EXCEPT ![p] = FreeCall]

\* The ledger moves: no pending call is calm any more.
Disturbed(c) == [q \in Slots |-> [c[q] EXCEPT !.calm = FALSE]]

\* forwarder.js:117-153: forwardTRX(balance) called from checkBalance in slot
\* p, up to the await of sendTrx or, on the two early returns, through finally.
Forward(p, balance) ==
  LET path == ForwardPath(balance) IN
  /\ ev' = path
  /\ IF path = "fwd_submit"
     THEN /\ isProcessing' = TRUE
          /\ calls' = [calls EXCEPT ![p] =
                         [pc |-> "send", val |-> NoVal, bal |-> balance,
                          amt |-> AmountToSend(balance),
                          to |-> config.destinationAddress, calm |-> FALSE]]
          /\ unfwd' = NoVal
     ELSE /\ isProcessing' = FlagAfterForward(path)
          /\ Finish(p)
          /\ unfwd' = unfwd

\* Variant: checkBalance without the isProcessing test.
EnterCheck_NoGuard(p, last) ==
  calls' = [calls EXCEPT ![p] =
              [FreeCall EXCEPT !.pc = "read", !.calm = (last = chain)]]

\* ---------------------------------------------------------- checkBalance
\* forwarder.js:75-84: entry of checkBalance in slot p, up to the await of
\* getBalance; a call entered while isProcessing is set returns at once.
\* last is this.lastBalance as the call finds it.
EnterCheck(p, last) ==
  IF isProcessing
  THEN calls' = [calls EXCEPT ![p] = FreeCall]
  ELSE calls' = [calls EXCEPT ![p] =
                   [FreeCall EXCEPT !.pc = "read", !.calm = (last = chain)]]

FreeSlots == { p \in TimerSlots : calls[p].pc = "free" }
LowestFree == CHOOSE p \in FreeSlots : \A q \in FreeSlots : p <= q

\* forwarder.js:47-50: the interval callback () => this.checkBalance()
TimerTick(t) ==
  /\ t \in timers
  /\ FreeSlots # {}
  /\ EnterCheck(LowestFree, lastBalance)
  /\ ev' = IF isProcessing THEN "tick_skip" ELSE "tick_read"
  /\ UNCHANGED << tools, config, engine, timers, resyncTimers, resyncReads, chain,
                  deposited, stopped, ghosts, unfwd >>

\* tronService.js:58: the node answers the pending getBalance of slot p.
Sample(p) ==
  /\ calls[p].pc \in {"init", "read"}
  /\ calls[p].val = NoVal
  /\ calls' = [calls EXCEPT ![p].val = chain]
  /\ ev' = "env"
  /\ UNCHANGED << tools, config, engine, timers, resyncTimers, resyncReads, chain,
                  deposited, stopped, ghosts, unfwd >>

\* Variant: a lower balance is taken for an unchanged one.
Compare_NoDecrease(currentBalance) ==
  IF currentBalance > lastBalance THEN "increase" ELSE "unchanged"

\* forwarder.js:87,101: the branch checkBalance takes for the balance it read.
Compare(currentBalance) ==
  IF currentBalance > lastBalance THEN "increase"
  ELSE IF currentBalance < lastBalance THEN "decrease"
  ELSE "unchanged"

\* forwarder.js:84-106: getBalance resolves; compare, update, maybe forward.
CheckResume(p) ==
  /\ calls[p].pc = "read"
  /\ calls[p].val # NoVal
  /\ LET currentBalance == calls[p].val IN
     IF Compare(currentBalance) = "increase"
     THEN /\ lastBalance' = currentBalance
          /\ Forward(p, currentBalance)
     ELSE IF Compare(currentBalance) = "decrease"
     THEN /\ lastBalance' = currentBalance
          /\ Finish(p)
          /\ ev' = "decrease"
          /\ UNCHANGED << isProcessing, unfwd >>
     ELSE /\ Finish(p)
          /\ ev' = "unchanged"
          /\ UNCHANGED << lastBalance, isProcessing, unfwd >>
  /\ UNCHANGED << tools, config, checkIntervalId, stats, timers, resyncTimers,
                  resyncReads, chain, deposited, stopped, ghosts >>

\* Variant: a failed read is taken for a balance of 0.
CheckReadFail_Zero(p) ==
  /\ calls[p].pc = "read"
  /\ Finish(p)
  /\ lastBalance' = 0
  /\ ev' = "read_fail"
  /\ UNCHANGED << tools, config, isProcessing, checkIntervalId, stats, timers,
                  resyncTimers, resyncReads, chain, deposited, stopped, ghosts,
                  unfwd >>

\* forwarder.js:107-110 (tronService.js:64-67): getBalance rejects.
CheckReadFail(p) ==
  /\ calls[p].pc = "read"
  /\ Finish(p)
  /\ ev' = "read_fail"
  /\ UNCHANGED << tools, config, engine, timers, resyncTimers, resyncReads, chain,
                  deposited, stopped, ghosts, unfwd >>

\* forwarder.js:155-173,182-185 (tronService.js:111-122): sendTrx resolves with
\* success: the node accepted a transfer that the balance covers.
SendOk(p) ==
  /\ calls[p].pc = "send"
  /\ calls[p].amt <= chain
  /\ stats' = StatsAfterSuccess(calls[p].amt)
  /\ resyncTimers' = resyncTimers + 1
  /\ isProcessing' = FlagAfterForward("send_ok")
  /\ calls' = Disturbed([calls EXCEPT ![p] = FreeCall])
  /\ chain' = chain - calls[p].amt
  /\ okCount' = okCount + 1
  /\ okSum' = okSum + calls[p].amt
  /\ unfwd' = NoVal
  /\ ev' = "send_ok"
  /\ UNCHANGED << tools, config, lastBalance, checkIntervalId, timers, resyncReads,
                  deposited, stopped >>

\* forwarder.js:174-185 (tronService.js:123-129): sendTrx rejects.
SendFail(p) ==
  /\ calls[p].pc = "send"
  /\ isProcessing' = FlagAfterForward("send_fail")
  /\ Finish(p)
  /\ unfwd' = IF chain = calls[p].bal /\ \A q \in Slots : calls[q].pc # "read"
              THEN calls[p].bal ELSE NoVal
  /\ ev' = "send_fail"
  /\ UNCHANGED << tools, config, lastBalance, checkIntervalId, stats, timers,
                  resyncTimers, resyncReads, chain, deposited, stopped,
                  ghosts >>

\* ------------------------------------------------------ deferred resync
\* forwarder.js:164-166: a timeout fires and its callback awaits getBalance.
ResyncFire ==
  /\ resyncTimers > 0
  /\ resyncTimers' = resyncTimers - 1
  /\ resyncReads' = [resyncReads EXCEPT ![NoVal] = @ + 1]
  /\ ev' = "resync_fire"
  /\ UNCHANGED << tools, config, engine, timers, calls, chain, deposited,
                  stopped, ghosts, unfwd >>

\* tronService.js:58: the node answers a resync's pending getBalance.
ResyncSample ==
  /\ resyncReads[NoVal] > 0
  /\ resyncReads' = [resyncReads EXCEPT ![NoVal] = @ - 1, ![chain] = @ + 1]
  /\ ev' = "env"
  /\ UNCHANGED << tools, config, engine, timers, calls, resyncTimers, chain, deposited,
                  stopped, ghosts, unfwd >>

\* Variant: the resync keeps the smaller of the two balances.
ResyncResume_Narrow(newBalance) ==
  /\ newBalance # NoVal
  /\ resyncReads[newBalance] > 0
  /\ lastBalance' = IF newBalance < lastBalance THEN newBalance ELSE lastBalance
  /\ resyncReads' = [resyncReads EXCEPT ![newBalance] = @ - 1]
  /\ ev' = "resync_done"
  /\ UNCHANGED << tools, config, isProcessing, checkIntervalId, stats, timers, calls,
                  resyncTimers, chain, deposited, stopped, ghosts, unfwd >>

\* forwarder.js:166-168
ResyncResume(newBalance) ==
  /\ newBalance # NoVal
  /\ resyncReads[newBalance] > 0
  /\ lastBalance' = newBalance
  /\ resyncReads' = [resyncReads EXCEPT ![newBalance] = @ - 1]
  /\ ev' = "resync_done"
  /\ UNCHANGED << tools, config, isProcessing, checkIntervalId, stats, timers, calls,
                  resyncTimers, chain, deposited, stopped, ghosts, unfwd >>

\* forwarder.js:169-171
ResyncReadFail(v) ==
  /\ resyncReads[v] > 0
  /\ resyncReads' = [resyncReads EXCEPT ![v] = @ - 1]
  /\ ev' = "resync_fail"
  /\ UNCHANGED << tools, config, engine, timers, calls, resyncTimers, chain, deposited,
                  stopped, ghosts, unfwd >>

\* ------------------------------------------------------------ start, stop
\* forwarder.js:26-35: start() up to the await of the initial getBalance.
StartCall ==
  /\ calls[0].pc = "free"
  /\ calls' = [calls EXCEPT ![0] = [FreeCall EXCEPT !.pc = "init"]]
  /\ stopped' = FALSE
  /\ ev' = "start_call"
  /\ UNCHANGED << tools, config, engine, timers, resyncTimers, resyncReads, chain,
                  deposited, ghosts, unfwd >>

\* forwarder.js:36-53: the initial read resolved; store it, arm the interval,
\* and run the first checkBalance up to its await.
StartResume ==
  /\ calls[0].pc = "init"
  /\ calls[0].val # NoVal
  /\ lastBalance' = calls[0].val
  /\ checkIntervalId' = Handle
  /\ timers' = {IF t = Handle THEN Leaked ELSE t : t \in timers} \cup {Handle}
  /\ EnterCheck(0, calls[0].val)
  /\ ev' = IF isProcessing THEN "start_skip" ELSE "start_armed"
  /\ UNCHANGED << tools, config, isProcessing, stats, resyncTimers, resyncReads, chain,
                  deposited, stopped, ghosts, unfwd >>

\* Variant: the interval is armed before the initial read is awaited.
StartReadFail_Armed ==
  /\ calls[0].pc = "init"
  /\ Finish(0)
  /\ checkIntervalId' = Handle
  /\ timers' = {IF t = Handle THEN Leaked ELSE t : t \in timers} \cup {Handle}
  /\ ev' = "start_fail"
  /\ UNCHANGED << tools, config, lastBalance, isProcessing, stats, resyncTimers,
                  resyncReads, chain, deposited, stopped, ghosts, unfwd >>

\* forwarder.js:54-57: the initial read rejected; start() rethrows.
StartReadFail ==
  /\ calls[0].pc = "init"
  /\ Finish(0)
  /\ ev' = "start_fail"
  /\ UNCHANGED << tools, config, engine, timers, resyncTimers, resyncReads, chain,
                  deposited, stopped, ghosts, unfwd >>

\* Variant: stop() also drops the deferred resyncs that are armed.
Stop_CancelsResync ==
  /\ IF checkIntervalId # NoTimer
     THEN /\ timers' = timers \ {checkIntervalId}
          /\ checkIntervalId' = NoTimer
          /\ ev' = "stop_stats"
     ELSE /\ UNCHANGED << timers, checkIntervalId >>
          /\ ev' = "stop_noop"
  /\ resyncTimers' = 0
  /\ stopped' = TRUE
  /\ UNCHANGED << tools, config, lastBalance, isProcessing, stats, calls, resyncReads,
                  chain, deposited, okCount, okSum, unfwd >>

\* Variant: displayStats() is called outside the if.
Stop_AlwaysShows ==
  /\ IF checkIntervalId # NoTimer
     THEN /\ timers' = timers \ {checkIntervalId}
          /\ checkIntervalId' = NoTimer
     ELSE UNCHANGED << timers, checkIntervalId >>
  /\ ev' = "stop_stats"
  /\ stopped' = TRUE
  /\ UNCHANGED << tools, config, lastBalance, isProcessing, stats, calls, resyncTimers,
                  resyncReads, chain, deposited, okCount, okSum, unfwd >>

\* forwarder.js:63-70
Stop ==
  /\ IF checkIntervalId # NoTimer
     THEN /\ timers' = timers \ {checkIntervalId}
          /\ checkIntervalId' = NoTimer
          /\ ev' = "stop_stats"
     ELSE /\ UNCHANGED << timers, checkIntervalId >>
          /\ ev' = "stop_noop"
  /\ stopped' = TRUE
  /\ UNCHANGED << tools, config, lastBalance, isProcessing, stats, calls, resyncTimers,
                  resyncReads, chain, deposited, okCount, okSum, unfwd >>

\* ------------------------------------------------------------- the ledger
\* One unit arrives at the watched address.
Deposit ==
  /\ deposited < MaxDeposit
  /\ chain' = chain + 1
  /\ deposited' = deposited + 1
  /\ calls' = Disturbed(calls)
  /\ unfwd' = NoVal
  /\ ev' = "env"
  /\ UNCHANGED << tools, config, engine, timers, resyncTimers, resyncReads, stopped,
                  ghosts >>

Next ==
  \/ \E t \in timers : TimerTick(t)
  \/ \E p \in Slots : Sample(p)
  \/ \E p \in Slots : CheckResume(p)
  \/ \E p \in Slots : CheckReadFail(p)
  \/ \E p \in Slots : SendOk(p)
  \/ \E p \in Slots : SendFail(p)
  \/ ResyncFire
  \/ ResyncSample
  \/ \E v \in ReadVals : ResyncResume(v)
  \/ \E v \in ReadVals : ResyncReadFail(v)
  \/ StartCall
  \/ StartResume
  \/ StartReadFail
  \/ Stop
  \/ Deposit

Spec == Init /\ [][Next]_vars

\* The event loop under a chain that answers: an armed interval keeps
\* firing, and every awaited getBalance or sendTrx is sampled and settles.
Fairness ==
  /\ WF_vars(\E t \in timers : TimerTick(t))
  /\ \A p \in Slots :
       /\ WF_vars(Sample(p))
       /\ WF_vars(CheckResume(p) \/ CheckReadFail(p))
       /\ WF_vars(SendOk(p) \/ SendFail(p))
  /\ WF_vars(ResyncFire)
  /\ WF_vars(ResyncSample)
  /\ WF_vars(\E v \in ReadVals : ResyncResume(v) \/ ResyncReadFail(v))
  /\ WF_vars(StartResume \/ StartReadFail)

FairSpec == Spec /\ Fairness

\* ------------------------------------------- TronService.waitForConfirmation
\* The engine the two helpers below stand beside: constructed, never started.
IdleConfig == CHOOSE c \in Configs : c.reserveAmount = 0

\* What one getTransaction(txid) gives: it throws, or resolves with null, or
\* with a transaction whose ret is missing or empty, or holds a contractRet.
Responses ==
  { [kind |-> "throws", ret |-> << >>],
    [kind |-> "null", ret |-> << >>],
    [kind |-> "tx", ret |-> << >>],
    [kind |-> "tx", ret |-> << "REVERT" >>],
    [kind |-> "tx", ret |-> << "SUCCESS" >>] }

\* tronService.js:203
\* tx && tx.ret && tx.ret[0] && tx.ret[0].contractRet === 'SUCCESS'
IsConfirmed(r) ==
  /\ r.kind = "tx"
  /\ Len(r.ret) > 0
  /\ r.ret[1] = "SUCCESS"

\* tronService.js:198: the call, with its maxAttempts.
WaitInit ==
  /\ Constructed(IdleConfig)
  /\ env = NoEnv
  /\ loaded = NotLoaded
  /\ \E m \in 0 .. MaxAttempts :
       wfc = [pc |-> "head", i |-> 0, maxAttempts |-> m, log |-> << >>,
              result |-> "none"]

\* Variant: the loop runs while i <= maxAttempts.
WaitHead_OffByOne ==
  /\ wfc.pc = "head"
  /\ IF wfc.i <= wfc.maxAttempts
     THEN wfc' = [wfc EXCEPT !.pc = "lookup"]
     ELSE wfc' = [wfc EXCEPT !.pc = "done", !.result = "false"]
  /\ UNCHANGED << forwarder, env, loaded >>

\* tronService.js:199,216-217: the loop test; past the last attempt the call
\* returns false.
WaitHead ==
  /\ wfc.pc = "head"
  /\ IF wfc.i < wfc.maxAttempts
     THEN wfc' = [wfc EXCEPT !.pc = "lookup"]
     ELSE wfc' = [wfc EXCEPT !.pc = "done", !.result = "false"]
  /\ UNCHANGED << forwarder, env, loaded >>

\* tronService.js:201-213: getTransaction settles with r; a confirmed
\* transaction returns true, anything else (a throw included) goes to sleep.
WaitLookup(r) ==
  /\ wfc.pc = "lookup"
  /\ IF r.kind # "throws" /\ IsConfirmed(r)
     THEN wfc' = [wfc EXCEPT !.pc = "done", !.result = "true",
                             !.log = Append(@, r)]
     ELSE wfc' = [wfc EXCEPT !.pc = "sleep", !.log = Append(@, r)]
  /\ UNCHANGED << forwarder, env, loaded >>

\* tronService.js:209,212,199: the setTimeout of the pause fires; i++.
WaitSleep ==
  /\ wfc.pc = "sleep"
  /\ wfc' = [wfc EXCEPT !.pc = "head", !.i = @ + 1]
  /\ UNCHANGED << forwarder, env, loaded >>

WaitNext ==
  \/ WaitHead
  \/ \E r \in Responses : WaitLookup(r)
  \/ WaitSleep

\* Every lookup returns or fails, and every pause ends.
WaitSpec ==
  /\ WaitInit
  /\ [][WaitNext]_vars
  /\ WF_vars(WaitHead)
  /\ WF_vars(\E r \in Responses : WaitLookup(r))
  /\ WF_vars(WaitSleep)

\* -------------------------------------------------------------- loadConfig
\* A JavaScript number: NaN, or a value.  Amounts are counted in halves of a
\* TRX here (1.5 TRX is 3), intervals in milliseconds.
NaN == [nan |-> TRUE, val |-> 0]
Num(n) == [nan |-> FALSE, val |-> n]

DefaultMinAmount == 3         \* part_001:41  || 1.5
DefaultReserveAmount == 2     \* part_001:44  || 1
DefaultCheckInterval == 3000  \* part_001:47  || 3000
MinCheckInterval == 1000      \* part_001:87  checkInterval < 1000

\* The texts process.env may hold for an amount and for the interval;
\* "unset" is a variable that is not defined.
AmountTexts == { "unset", "abc", "-1", "0", "0.5", "1", "1.5", "2" }
IntervalTexts == { "unset", "abc", "0", "999", "1000", "1500.7", "3000" }

\* parseFloat, in halves of a TRX.
ParseFloat(text) ==
  CASE text = "-1" -> Num(-2)
    [] text = "0" -> Num(0)
    [] text = "0.5" -> Num(1)
    [] text = "1" -> Num(2)
    [] text = "1.5" -> Num(3)
    [] text = "2" -> Num(4)
    [] OTHER -> NaN

\* parseInt: leading digits, the rest dropped.
ParseInt(text) ==
  CASE text = "0" -> Num(0)
    [] text = "999" -> Num(999)
    [] text = "1000" -> Num(1000)
    [] text = "1500.7" -> Num(1500)
    [] text = "3000" -> Num(3000)
    [] OTHER -> NaN

\* x || d: NaN and 0 are falsy.
OrDefault(x, d) == IF x.nan \/ x.val = 0 THEN Num(d) ELSE x

\* Comparisons with NaN are false.
Less(x, y) == ~x.nan /\ ~y.nan /\ x.val < y.val
LessEq(x, y) == ~x.nan /\ ~y.nan /\ x.val <= y.val

\* Private keys and addresses by what the validators look at.
Keys ==
  { [set |-> FALSE, len |-> 0, hex |-> TRUE],
    [set |-> TRUE, len |-> 64, hex |-> TRUE],
    [set |-> TRUE, len |-> 63, hex |-> TRUE],
    [set |-> TRUE, len |-> 64, hex |-> FALSE] }
Addresses ==
  { [set |-> FALSE, first |-> "", len |-> 0],
    [set |-> TRUE, first |-> "T", len |-> 34],
    [set |-> TRUE, first |-> "A", len |-> 34],
    [set |-> TRUE, first |-> "T", len |-> 33] }

\* part_001:8-13
isValidTronAddress(address) ==
  /\ address.set
  /\ address.first = "T"
  /\ address.len = 34

\* part_001:19-24
isValidPrivateKey(key) ==
  /\ key.set
  /\ key.hex
  /\ key.len = 64

Envs ==
  [ PRIVATE_KEY : Keys, WATCH_ADDRESS : Addresses,
    DESTINATION_ADDRESS : Addresses, MIN_AMOUNT : AmountTexts,
    RESERVE_AMOUNT : AmountTexts, CHECK_INTERVAL : IntervalTexts ]

\* part_001:30-51
ParsedConfig(e) ==
  [ privateKey |-> e.PRIVATE_KEY,
    watchAddress |-> e.WATCH_ADDRESS,
    destinationAddress |-> e.DESTINATION_ADDRESS,
    minAmount |-> OrDefault(ParseFloat(e.MIN_AMOUNT), DefaultMinAmount),
    reserveAmount |-> OrDefault(ParseFloat(e.RESERVE_AMOUNT), DefaultReserveAmount),
    checkInterval |-> OrDefault(ParseInt(e.CHECK_INTERVAL), DefaultCheckInterval) ]

\* part_001:54-89
ConfigErrors(c) ==
  (IF ~isValidPrivateKey(c.privateKey) THEN {"PRIVATE_KEY"} ELSE {})
  \cup (IF ~isValidTronAddress(c.watchAddress)
        THEN {"WATCH_ADDRESS"} ELSE {})
  \cup (IF ~isValidTronAddress(c.destinationAddress)
        THEN {"DESTINATION_ADDRESS"} ELSE {})
  \cup (IF c.minAmount.nan \/ LessEq(c.minAmount, Num(0))
        THEN {"MIN_AMOUNT"} ELSE {})
  \cup (IF c.reserveAmount.nan \/ Less(c.reserveAmount, Num(0))
        THEN {"RESERVE_AMOUNT"} ELSE {})
  \cup (IF LessEq(c.minAmount, c.reserveAmount)
        THEN {"MIN_AMOUNT <= RESERVE_AMOUNT"} ELSE {})
  \cup (IF c.checkInterval.nan \/ Less(c.checkInterval, Num(MinCheckInterval))
        THEN {"CHECK_INTERVAL"} ELSE {})

ConfInit ==
  /\ Constructed(IdleConfig)
  /\ env \in Envs
  /\ loaded = NotLoaded
  /\ wfc = WaitIdle

\* part_001:92,102: no error was collected; the config is returned.
LoadConfigReturn ==
  /\ loaded.status = "none"
  /\ ConfigErrors(ParsedConfig(env)) = {}
  /\ loaded' = [status |-> "returned", code |-> 0, config |-> ParsedConfig(env)]
  /\ UNCHANGED << forwarder, env, wfc >>

\* part_001:92-100: errors were collected; process.exit(1).
LoadConfigExit ==
  /\ loaded.status = "none"
  /\ ConfigErrors(ParsedConfig(env)) # {}
  /\ loaded' = [status |-> "exit", code |-> 1, config |-> ParsedConfig(env)]
  /\ UNCHANGED << forwarder, env, wfc >>

ConfNext == LoadConfigReturn \/ LoadConfigExit

ConfSpec == ConfInit /\ [][ConfNext]_vars

\* ======================================================================
\* Properties
\* ======================================================================
InFlight == { p \in Slots : calls[p].pc = "send" }

\* The checkBalance of slot p gets its balance and runs on in this step.
Resumes(p) ==
  /\ calls[p].pc = "read"
  /\ calls[p].val # NoVal
  /\ calls'[p].pc # "read"
  /\ ev' # "read_fail"

\* forwardTRX called in slot p returns in this step.
ForwardReturns(p) ==
  \/ calls[p].pc = "send" /\ calls'[p].pc = "free"
  \/ Resumes(p) /\ calls[p].val > lastBalance /\ calls'[p].pc = "free"

\* C1: at most one forward attempt (a sendTrx submission) is in flight at any
\* instant, whatever the timing of the ticks.
C1_AtMostOneInFlight == Cardinality(InFlight) <= 1

\* C2: a tick that observes b > lastBalance with b >= minAmount and
\* b - reserveAmount > 0 submits exactly one transfer, of b - reserveAmount to
\* destinationAddress; nothing else submits, and a call that has submitted
\* never submits again.
C2_OneTransferPerIncrease ==
  [][\A p \in Slots :
       LET b == calls[p].val
           detected == /\ Resumes(p)
                       /\ b > lastBalance
                       /\ b >= config.minAmount
                       /\ b - config.reserveAmount > 0
       IN /\ detected =>
               /\ calls'[p].pc = "send"
               /\ calls'[p].bal = b
               /\ calls'[p].amt = b - config.reserveAmount
               /\ calls'[p].to = config.destinationAddress
               /\ InFlight' = InFlight \cup {p}
          /\ (calls[p].pc # "send" /\ calls'[p].pc = "send") => detected
          /\ calls[p].pc = "send" => calls'[p] \in {calls[p], FreeCall}
    ]_vars

C2_Witness ==
  /\ ev = "fwd_submit"
  /\ config.reserveAmount > 0
  /\ \E p \in Slots : /\ calls[p].pc = "send"
                      /\ calls[p].bal = lastBalance
                      /\ calls[p].amt = lastBalance - config.reserveAmount

\* C3: forwardTRX invoked with b < minAmount submits nothing, leaves the stats
\* alone and schedules no resync; so every submitted transfer was computed
\* from a balance >= minAmount.
C3_BelowThresholdNoTransfer ==
  /\ [][\A p \in Slots :
          (Resumes(p) /\ calls[p].val > lastBalance /\ calls[p].val < config.minAmount)
          => /\ calls'[p] = FreeCall
             /\ InFlight' = InFlight
             /\ stats' = stats
             /\ resyncTimers' = resyncTimers
             /\ resyncReads' = resyncReads
       ]_vars
  /\ [](\A p \in InFlight : calls[p].bal >= config.minAmount)

C3_Witness ==
  /\ ev = "fwd_below"
  /\ lastBalance > 0
  /\ lastBalance < config.minAmount
  /\ InFlight = {}
  /\ stats.transfersCount = 0

\* C4: after sendTrx has failed for a balance b >= minAmount and the ledger
\* stays at b, the next tick whose read succeeds attempts the forward again.
C4_FailedForwardRetried ==
  [][\A p \in Slots :
       (unfwd # NoVal /\ Resumes(p) /\ calls[p].val = unfwd)
       => calls'[p].pc = "send"
    ]_vars

\* C5: a checkBalance call made when lastBalance equals the ledger balance,
\* and during which the ledger balance does not move, submits no transfer and
\* leaves the stats alone, whatever reads and resyncs are pending beside it.
C5_UnchangedBalanceNoTransfer ==
  [][\A p \in Slots :
       (Resumes(p) /\ calls[p].calm)
       => /\ calls'[p].pc # "send"
          /\ stats' = stats
    ]_vars

\* C6: when a checkBalance whose read succeeded returns, lastBalance is the
\* balance that call observed (val while it compares, bal once it forwards).
C6_LastBalanceIsObserved ==
  [][\A p \in Slots :
       /\ (Resumes(p) /\ calls'[p].pc = "free") => lastBalance' = calls[p].val
       /\ (calls[p].pc = "send" /\ calls'[p].pc = "free")
          => lastBalance' = calls[p].bal
    ]_vars

\* C7: forwardTRX holds isProcessing while its submission is awaited and has
\* cleared it whenever it returns: below threshold, reserve not covered,
\* submission succeeded, submission threw.
C7_GuardReleased ==
  [][\A p \in Slots :
       /\ ForwardReturns(p) => ~isProcessing'
       /\ (Resumes(p) /\ calls'[p].pc = "send") => isProcessing'
    ]_vars

C7_Witness ==
  /\ ev = "send_fail"
  /\ ~isProcessing
  /\ InFlight = {}

\* C8: once stop() has returned and start() has not been called again, no
\* interval timer starts a checkBalance.
C8_NoTickAfterStop ==
  [][stopped => ev' \notin {"tick_read", "tick_skip"}]_vars

\* C9: stop() with no handle held changes nothing and does not show the
\* stats; stop() with a handle held clears that interval, forgets the handle
\* and shows the stats, once.
C9_StopIdempotent ==
  [][ev' \in {"stop_noop", "stop_stats"} =>
       IF checkIntervalId = NoTimer
       THEN /\ ev' = "stop_noop"
            /\ UNCHANGED << config, engine, timers, calls, resyncTimers,
                            resyncReads, chain >>
       ELSE /\ ev' = "stop_stats"
            /\ checkIntervalId' = NoTimer
            /\ timers' = timers \ {checkIntervalId}
            /\ UNCHANGED << config, lastBalance, isProcessing, stats, calls,
                            resyncTimers, resyncReads, chain >>
    ]_vars

C9_Witness ==
  /\ ev = "stop_noop"
  /\ stopped
  /\ checkIntervalId = NoTimer
  /\ stats.transfersCount > 0

\* C10: transfersCount is the number of submissions that succeeded and
\* totalAmount the sum of their amounts; a success adds 1 and its amount, and
\* no other step touches either, so neither is negative or ever decreases.
C10_StatsAccountForSuccesses ==
  /\ [](/\ stats.transfersCount = okCount
        /\ stats.totalAmount = okSum
        /\ stats.transfersCount >= 0
        /\ stats.totalAmount >= 0)
  /\ [][IF ev' = "send_ok"
        THEN \E p \in InFlight :
               /\ calls'[p].pc = "free"
               /\ stats'.transfersCount = stats.transfersCount + 1
               /\ stats'.totalAmount = stats.totalAmount + calls[p].amt
        ELSE stats' = stats]_vars

C10_Witness ==
  /\ ev = "send_ok"
  /\ stats.transfersCount > 0
  /\ stats.totalAmount > stats.transfersCount

\* C11: when the initial read of start() fails, start() ends there: no
\* interval is armed, checkIntervalId and lastBalance stay as they were and no
\* checkBalance is entered.  When the read of the immediate first check
\* fails, start() returns normally with its interval and lastBalance in place.
C11_StartupFailureClean ==
  [][/\ ev' = "start_fail" =>
          /\ calls[0].pc = "init"
          /\ calls'[0] = FreeCall
          /\ \A p \in Slots : calls'[p].pc = "read" => calls[p].pc = "read"
          /\ InFlight' = InFlight
          /\ UNCHANGED << engine, timers >>
     /\ (calls[0].pc = "read" /\ ev' = "read_fail" /\ calls'[0].pc = "free") =>
          /\ calls'[0] = FreeCall
          /\ UNCHANGED << engine, timers >>
    ]_vars

C11_Witness ==
  /\ ev = "start_fail"
  /\ checkIntervalId = NoTimer
  /\ timers = {}
  /\ chain > lastBalance
  /\ \A p \in Slots : calls[p].pc = "free"

\* C12: a checkBalance whose read fails returns normally: lastBalance,
\* isProcessing, stats and the armed timers are as before and nothing is
\* submitted; a failed sendTrx also ends in a normal return of the call, with
\* the timers armed and lastBalance and stats as before.
C12_ReadFailureTransient ==
  [][\A p \in Slots :
       /\ (calls[p].pc = "read" /\ calls'[p].pc = "free" /\ ev' = "read_fail") =>
            /\ calls'[p] = FreeCall
            /\ InFlight' = InFlight
            /\ UNCHANGED << engine, timers, resyncTimers, resyncReads >>
       /\ (calls[p].pc = "send" /\ calls'[p].pc = "free" /\ ev' = "send_fail") =>
            /\ calls' = [calls EXCEPT ![p] = FreeCall]
            /\ UNCHANGED << lastBalance, checkIntervalId, stats, timers,
                            resyncTimers, resyncReads >>
    ]_vars

C12_Witness ==
  /\ ev = "read_fail"
  /\ lastBalance > 0
  /\ chain > lastBalance
  /\ timers # {}

\* C13: a checkBalance entered while isProcessing is set returns at once: no
\* read is started, nothing is submitted and lastBalance, isProcessing, stats
\* and the timers are as before; one entered with the flag clear starts a read.
C13_BusyTickSkipped ==
  [][ev' \in {"tick_read", "tick_skip"} =>
       IF isProcessing
       THEN /\ ev' = "tick_skip"
            /\ UNCHANGED << engine, timers, calls, resyncTimers, resyncReads,
                            chain >>
       ELSE /\ ev' = "tick_read"
            /\ \E p \in TimerSlots :
                 /\ calls[p].pc = "free"
                 /\ calls'[p].pc = "read"
                 /\ calls'[p].val = NoVal
    ]_vars

C13_Witness ==
  /\ ev = "tick_skip"
  /\ isProcessing
  /\ InFlight # {}
  /\ chain > lastBalance

\* C14: a checkBalance that observes a balance below lastBalance stores it in
\* lastBalance and returns: nothing is submitted, isProcessing and stats are
\* as before.
C14_DecreaseNoForward ==
  [][\A p \in Slots :
       (Resumes(p) /\ calls[p].val < lastBalance) =>
         /\ lastBalance' = calls[p].val
         /\ calls'[p] = FreeCall
         /\ InFlight' = InFlight
         /\ ev' = "decrease"
         /\ UNCHANGED << isProcessing, stats, resyncTimers, resyncReads >>
    ]_vars

C14_Witness ==
  /\ ev = "decrease"
  /\ lastBalance = chain
  /\ stats.transfersCount > 0

\* Resync callbacks that have fired and are awaiting getBalance.
ResyncPending ==
  LET RECURSIVE Sum(_)
      Sum(S) == IF S = {} THEN 0
                ELSE LET v == CHOOSE x \in S : TRUE
                     IN resyncReads[v] + Sum(S \ {v})
  IN Sum(ReadVals)

\* C15: a resync is scheduled by each successful submission, once, and by no
\* other step; when it fires it starts one balance read; when that read
\* returns, lastBalance becomes the value read; when it fails, the callback
\* ends with lastBalance, the other engine fields and the timers as before.
C15_ResyncPerSuccess ==
  /\ [](resyncTimers + ResyncPending <= okCount)
  /\ [][/\ IF ev' = "send_ok"
           THEN resyncTimers' = resyncTimers + 1
           ELSE resyncTimers' <= resyncTimers
        /\ ev' = "resync_fire" =>
             /\ resyncTimers' = resyncTimers - 1
             /\ resyncReads' = [resyncReads EXCEPT ![NoVal] = @ + 1]
             /\ UNCHANGED << engine, timers, calls >>
        /\ (ev' = "env" /\ resyncReads' # resyncReads) =>
             /\ resyncReads[NoVal] > 0
             /\ resyncReads' = [resyncReads EXCEPT ![NoVal] = @ - 1,
                                                   ![chain] = @ + 1]
        /\ ev' = "resync_done" =>
             \E v \in ReadVals \ {NoVal} :
               /\ resyncReads[v] > 0
               /\ resyncReads' = [resyncReads EXCEPT ![v] = @ - 1]
               /\ lastBalance' = v
        /\ ev' = "resync_fail" =>
             /\ ResyncPending' = ResyncPending - 1
             /\ UNCHANGED << engine, timers, calls, resyncTimers >>
       ]_vars

C15_Witness ==
  /\ ev = "resync_done"
  /\ stats.transfersCount > 0
  /\ lastBalance = chain
  /\ resyncTimers + ResyncPending = 0

\* C16: a resync never raises lastBalance, submits nothing and leaves
\* isProcessing and stats alone.
C16_ResyncOnlyNarrows ==
  [][ev' = "resync_done" =>
       /\ lastBalance' <= lastBalance
       /\ InFlight' = InFlight
       /\ UNCHANGED << isProcessing, stats >>
    ]_vars

\* C17: forwardTRX is entered only while isProcessing is false.
C17_ForwardEnteredUnguarded ==
  [][\A p \in Slots :
       (Resumes(p) /\ calls[p].val > lastBalance) => ~isProcessing
    ]_vars

\* C18: start() stores the balance it read as lastBalance, arms the interval
\* and enters the immediate checkBalance in one go; and the immediate check,
\* when the balance it reads is the one start() stored and the ledger has not
\* moved in between, submits nothing.
C18_StartDoesNotForwardSnapshot ==
  [][/\ ev' \in {"start_armed", "start_skip"} =>
          /\ calls[0].pc = "init"
          /\ lastBalance' = calls[0].val
          /\ checkIntervalId' = Handle
          /\ Handle \in timers'
          /\ calls'[0].pc = IF isProcessing THEN "free" ELSE "read"
     /\ (Resumes(0) /\ calls[0].calm) => calls'[0].pc # "send"
    ]_vars

\* No chain call has failed in the step that led here, and no start() is
\* under way.
Steady ==
  /\ ev \notin {"read_fail", "send_fail", "resync_fail", "start_fail"}
  /\ calls[0].pc # "init"

\* C19: if from some point on no chain call fails and start() is not called
\* again, then whenever a balance whose submission failed is still on the
\* ledger and an interval is armed, eventually it is submitted again, or the
\* ledger moves, or no interval is armed any more.
C19_DepositEventuallyForwarded ==
  (<>[]Steady) =>
    []((unfwd # NoVal /\ timers # {}) => <>(unfwd = NoVal \/ timers = {}))

\* C20: stop() takes away at most the interval whose handle it holds and
\* leaves lastBalance, isProcessing, stats, the pending calls and the deferred
\* resyncs alone; after it, a pending checkBalance or sendTrx can still run on
\* and an armed resync can still fire and store lastBalance.
C20_StopReleasesOnlyTimer ==
  /\ [][ev' \in {"stop_noop", "stop_stats"} =>
          /\ UNCHANGED << lastBalance, isProcessing, stats, calls, resyncTimers,
                          resyncReads >>
          /\ timers' \subseteq timers
          /\ timers \ timers' \subseteq {checkIntervalId}
       ]_vars
  /\ [](stopped =>
          /\ \A p \in Slots :
               /\ calls[p].pc = "send" => ENABLED SendFail(p)
               /\ (calls[p].pc = "read" /\ calls[p].val # NoVal)
                    => ENABLED CheckResume(p)
          /\ resyncTimers > 0 => ENABLED ResyncFire
          /\ \A v \in ReadVals \ {NoVal} :
               resyncReads[v] > 0 => ENABLED ResyncResume(v))

C20_Witness ==
  /\ stopped
  /\ timers = {}
  /\ ev = "resync_done"
  /\ stats.transfersCount > 0
  /\ lastBalance = chain

\* The configuration satisfies minAmount > reserveAmount >= 0.
ValidConfig ==
  /\ config.minAmount > config.reserveAmount
  /\ config.reserveAmount >= 0

\* C21 as stated: under a valid configuration every balance that passes the
\* threshold gives an amount strictly above minAmount - reserveAmount.
C21_AmountAboveMargin ==
  ValidConfig =>
    \A p \in InFlight : calls[p].amt > config.minAmount - config.reserveAmount

\* C21, amended: under a valid configuration every balance that passes the
\* threshold gives an amount of at least minAmount - reserveAmount, which is
\* above 0; the reserve exit is never taken, every submitted amount is
\* positive and every success strictly raises stats.totalAmount.
C21_ReserveExitUnreachable ==
  /\ [](ValidConfig =>
          /\ \A b \in 0 .. MaxDeposit :
               ~BelowThreshold(b) =>
                 /\ AmountToSend(b) >= config.minAmount - config.reserveAmount
                 /\ AmountToSend(b) > 0
                 /\ ForwardPath(b) = "fwd_submit"
          /\ ev # "fwd_reserve"
          /\ \A p \in InFlight :
               /\ calls[p].amt >= config.minAmount - config.reserveAmount
               /\ calls[p].amt > 0)
  /\ [][(ValidConfig /\ ev' = "send_ok") =>
          stats'.totalAmount > stats.totalAmount]_vars

C21_Witness ==
  /\ ValidConfig
  /\ config.reserveAmount > 0
  /\ ev = "send_ok"
  /\ stats.totalAmount = config.minAmount - config.reserveAmount

\* C22: waitForConfirmation makes at most maxAttempts lookups and then
\* returns: true at the first lookup that reports SUCCESS, false when all
\* maxAttempts lookups have been made and none did (with none made when
\* maxAttempts is 0); a lookup that throws uses up an attempt and the wait
\* goes on.
C22_WaitTerminates ==
  /\ [](/\ Len(wfc.log) <= wfc.maxAttempts
        /\ wfc.i <= wfc.maxAttempts
        /\ wfc.result = "true" =>
             /\ Len(wfc.log) > 0
             /\ IsConfirmed(wfc.log[Len(wfc.log)])
             /\ \A k \in 1 .. Len(wfc.log) - 1 : ~IsConfirmed(wfc.log[k])
        /\ wfc.result = "false" =>
             /\ Len(wfc.log) = wfc.maxAttempts
             /\ \A k \in 1 .. Len(wfc.log) : ~IsConfirmed(wfc.log[k])
        /\ (wfc.pc = "done") = (wfc.result # "none"))
  /\ [][Len(wfc'.log) = Len(wfc.log) + 1 =>
          LET r == wfc'.log[Len(wfc'.log)] IN
          /\ wfc.i = Len(wfc.log)
          /\ IF IsConfirmed(r)
             THEN wfc'.pc = "done" /\ wfc'.result = "true"
             ELSE wfc'.pc = "sleep" /\ wfc'.result = "none" /\ wfc'.i = wfc.i
       ]_vars
  /\ <>(wfc.pc = "done")

C22_Witness ==
  /\ wfc.pc = "done"
  /\ wfc.result = "true"
  /\ Len(wfc.log) = wfc.maxAttempts
  /\ \E k \in 1 .. Len(wfc.log) : wfc.log[k].kind = "throws"

\* The value an environment text stands for: the documented default when the
\* variable is not defined, else the number it spells.
GivenAmount(text, d) == IF text = "unset" THEN Num(d) ELSE ParseFloat(text)
GivenInterval(text) ==
  IF text = "unset" THEN Num(DefaultCheckInterval) ELSE ParseInt(text)

\* The environment satisfies what the claim lists.
EnvSatisfies(e) ==
  LET min == GivenAmount(e.MIN_AMOUNT, DefaultMinAmount)
      res == GivenAmount(e.RESERVE_AMOUNT, DefaultReserveAmount)
  IN /\ Less(res, min)
     /\ LessEq(Num(0), res)
     /\ LessEq(Num(MinCheckInterval), GivenInterval(e.CHECK_INTERVAL))
     /\ isValidPrivateKey(e.PRIVATE_KEY)
     /\ isValidTronAddress(e.WATCH_ADDRESS)
     /\ isValidTronAddress(e.DESTINATION_ADDRESS)

\* The returned config satisfies what the claim lists.
ConfigSatisfies(c) ==
  /\ Less(c.reserveAmount, c.minAmount)
  /\ LessEq(Num(0), c.reserveAmount)
  /\ LessEq(Num(MinCheckInterval), c.checkInterval)
  /\ isValidPrivateKey(c.privateKey)
  /\ isValidTronAddress(c.watchAddress)
  /\ isValidTronAddress(c.destinationAddress)

\* C23: a config that loadConfig returns has minAmount > reserveAmount >= 0,
\* checkInterval >= 1000 and a well-formed key and addresses; and for an
\* environment that violates one of these loadConfig returns nothing and
\* exits with code 1.
C23_LoadConfigValidates ==
  loaded.status # "none" =>
    /\ loaded.status = "returned" => ConfigSatisfies(loaded.config)
    /\ ~EnvSatisfies(env) => (loaded.status = "exit" /\ loaded.code = 1)

\* Whatever loadConfig returns satisfies what the claim lists.
ReturnedConfigValid ==
  loaded.status = "returned" => ConfigSatisfies(loaded.config)

====
